---- MODULE Spec2Model ----
(***************************************************************************)
(* Model of dns_mapper: the recursive discovery engine                     *)
(* (core/recursive_engine.py) driving a roster of discovery strategies.    *)
(*                                                                         *)
(* Targets (domain names, IP addresses) are numbered 1, 2, 3, ... in the   *)
(* order in which they first appear in a behaviour.  The strategies of     *)
(* the engine model are stubs: the answer of strategy s at target t is     *)
(* drawn when discover(t) is first called and is kept in `world`, so that  *)
(* the stubs are deterministic across the analyze calls on one engine.     *)
(***************************************************************************)
EXTENDS Integers, Sequences, FiniteSets, TLC

\* ---------------------------------------------------------------- bounds
MaxDepthBound == 2      \* max_depth ranges over -1 .. MaxDepthBound
MaxValues     == 4      \* distinct targets a behaviour may name
MaxOut        == 2      \* results one discover() call may return
MaxEdges      == 4      \* results held by all stubs together (one run)
RerunEdges    == 2      \* the same, on an engine that is run again
LiveEdges     == 3      \* the same, where termination is checked
MaxFaults     == 1      \* faulting discover() calls / malformed results
MaxRuns       == 2      \* analyze() calls on one engine

\* ------------------------------------------------------------- constants
NoParent == 0           \* parent=None of the root call
NoRoot   == 0           \* initial_domain while no analyze call is running
Roster   == <<1, 2>>    \* self.strategies, in declaration order

\* a target is a domain name (odd numbers) or an IP address (even numbers)
KindOf(v) == IF v % 2 = 1 THEN "domain" ELSE "ip"

VARIABLES
    max_depth,      \* self.max_depth
    visited,        \* self.visited
    graph,          \* self.graph (defaultdict(list)): target -> entries
    all_results,    \* self.all_results: domains, ips, relationships
    stack,          \* call stack of _recursive_analyze frames
    status,         \* "idle" | "running" | "done" | "crashed"
    initial_domain, \* argument of the current analyze call
    result,         \* value returned by the last analyze call
    world,          \* stub answers: <<strategy, target>> -> outcome
    known,          \* number of targets named so far
    runs,           \* analyze calls made
    budget,         \* analyze calls and stub results this behaviour may use
    expansions,     \* history: target -> expansions in this run
    rejected,       \* history: targets turned away by the depth guard
    invoked,        \* history: discover calls of this run, in order
    hops,           \* history: value -> chain lengths it was reached at
    memo,           \* history: root -> result of its first finished run
    events,         \* history: guard returns, expansions and discover calls
    probe           \* one discover call of a concrete strategy, on its own

vars == <<max_depth, visited, graph, all_results, stack, status,
          initial_domain, result, world, known, runs, budget,
          expansions, rejected, invoked, hops, memo, events, probe>>

\* ------------------------------------------------------------- utilities
Min(a, b) == IF a < b THEN a ELSE b
Max(a, b) == IF a > b THEN a ELSE b

Range(s) == {s[i] : i \in 1..Len(s)}

RECURSIVE SortedSeq(_)
\* sorted(set): ascending list of the members
SortedSeq(S) ==
    IF S = {} THEN <<>>
    ELSE LET m == CHOOSE x \in S : \A y \in S : x <= y
         IN  <<m>> \o SortedSeq(S \ {m})

\* --------------------------------------------------------- strategy stubs
\* A result is [form, items]: a tuple (type, value, source, metadata) or a
\* dict with keys type/value/source.  A tuple with fewer than three items
\* is malformed.
FormOf(s) == IF s = 1 THEN "tuple" ELSE "dict"

GoodResult(s, ty, v) ==
    [form |-> FormOf(s),
     items |-> IF FormOf(s) = "tuple" THEN <<ty, v, s, "meta">>
               ELSE <<ty, v, s>>]

ShortResult(ty, v) == [form |-> "tuple", items |-> <<ty, v>>]

IsShort(r) == r.form = "tuple" /\ Len(r.items) < 3

NumShort(q) == Cardinality({i \in 1..Len(q) : IsShort(q[i])})

\* Sequences of at most k results strategy s may return when n targets are
\* named, at most f of them malformed; a new target gets the next number.
RECURSIVE ResultSeqs(_, _, _, _)
ResultSeqs(s, n, k, f) ==
    IF k <= 0 THEN {<<>>}
    ELSE {<<>>} \cup
         UNION { LET n2 == Max(n, v) IN
                   { <<GoodResult(s, KindOf(v), v)>> \o q :
                        q \in ResultSeqs(s, n2, k - 1, f) }
                   \cup
                   (IF f > 0
                    THEN { <<ShortResult(KindOf(v), v)>> \o q :
                             q \in ResultSeqs(s, n2, k - 1, f - 1) }
                    ELSE {})
               : v \in 1..Min(n + 1, MaxValues) }

EdgesIn(w) ==
    LET RECURSIVE Sum(_)
        Sum(K) == IF K = {} THEN 0
                  ELSE LET k == CHOOSE x \in K : TRUE
                       IN  Len(w[k].out) + Sum(K \ {k})
    IN  Sum(DOMAIN w)

FaultsIn(w) ==
    LET RECURSIVE Sum(_)
        Sum(K) == IF K = {} THEN 0
                  ELSE LET k == CHOOSE x \in K : TRUE
                       IN  (IF w[k].raises THEN 1 ELSE 0)
                           + NumShort(w[k].out) + Sum(K \ {k})
    IN  Sum(DOMAIN w)

\* The answers a stub may give on its first call at some target.
Outcomes(s, w, n, edges) ==
    LET f == MaxFaults - FaultsIn(w)
        k == Min(MaxOut, edges - EdgesIn(w))
    IN  { [raises |-> FALSE, out |-> q] : q \in ResultSeqs(s, n, k, f) }
        \cup (IF f > 0 THEN {[raises |-> TRUE, out |-> <<>>]} ELSE {})

MaxNamed(q, n) ==
    LET vs == {q[i].items[2] : i \in 1..Len(q)} \cup {n}
    IN  CHOOSE m \in vs : \A x \in vs : x <= m


\* ------------------------------------------------- RecursiveEngine: data
NoCur == [type |-> "none", value |-> 0, source |-> 0]

NoContext == [depth |-> -1, parent |-> -1]      \* context not yet built

Frame(target, depth, parent) ==
    [target |-> target, depth |-> depth, parent |-> parent, pc |-> "enter",
     context |-> NoContext, si |-> 1, results |-> <<>>, cur |-> NoCur,
     discovered |-> <<>>, di |-> 1]

EmptyResults == [domains |-> {}, ips |-> {}, relationships |-> <<>>]

EmptyGraph == [t \in {} |-> <<>>]

NoResult ==
    [initial_domain |-> 0, domains |-> <<>>, ips |-> <<>>,
     relationships |-> <<>>, graph |-> EmptyGraph,
     stats |-> [total_domains |-> 0, total_ips |-> 0,
                total_relationships |-> 0]]

Top == stack[Len(stack)]

SetTop(f) == [stack EXCEPT ![Len(stack)] = f]

\* context = {'depth': depth, 'parent': parent, 'visited': self.visited}:
\* 'visited' is the engine's own set, not a copy, so what a strategy reads
\* under that key is the variable visited at the time of the call
Context(depth, parent) == [depth |-> depth, parent |-> parent]

\* An entry of the history: what happened ("too deep", "seen", "expand",
\* "discover") to the call with frame f; for a discover call, the strategy
\* and the depth, parent and visited set its context gave it.
Event(what, f, s, seen) ==
    [what |-> what, target |-> f.target, depth |-> f.depth,
     parent |-> f.parent, strategy |-> s, seen |-> seen]

\* ------------------------------------------- RecursiveEngine: operations
\* variant: the guard lets one more level through
DepthExceededLate(depth, md) == depth > md + 1

\* if depth > self.max_depth: return
DepthExceeded(depth, md) == depth > md

\* if target in self.visited: return
AlreadyVisited(target, v) == target \in v

\* variant: the target is never recorded as visited
MarkVisitedNot(v, target) == v

\* self.visited.add(target)
MarkVisited(v, target) == v \cup {target}

\* Normalisation of one result: ok = FALSE when it raises (result[2] of a
\* tuple with fewer than three items).
Normalize(r) ==
    IF r.form = "tuple"
    THEN IF Len(r.items) < 3
         THEN [ok |-> FALSE, cur |-> NoCur]
         ELSE [ok |-> TRUE,
               cur |-> [type |-> r.items[1], value |-> r.items[2],
                        source |-> r.items[3]]]
    ELSE [ok |-> TRUE,
          cur |-> [type |-> r.items[1], value |-> r.items[2],
                   source |-> r.items[3]]]

\* variant: the elif branch for IP addresses is missing
AddToSetsNoIp(ar, cur) ==
    IF cur.type = "domain"
    THEN [ar EXCEPT !.domains = @ \cup {cur.value}]
    ELSE ar

\* if result_type == 'domain': domains.add(...) elif 'ip': ips.add(...)
AddToSets(ar, cur) ==
    IF cur.type = "domain"
    THEN [ar EXCEPT !.domains = @ \cup {cur.value}]
    ELSE IF cur.type = "ip"
         THEN [ar EXCEPT !.ips = @ \cup {cur.value}]
         ELSE ar

\* variant: the relationship carries the depth of the discovered value
RelationshipAtChildDepth(target, cur, depth) ==
    [from |-> target, to |-> cur.value, type |-> cur.type,
     source |-> cur.source, depth |-> depth + 1]

\* the relationship dict of one discovery
Relationship(target, cur, depth) ==
    [from |-> target, to |-> cur.value, type |-> cur.type,
     source |-> cur.source, depth |-> depth]

GraphEntry(cur) ==
    [value |-> cur.value, type |-> cur.type, source |-> cur.source]

\* variant: the entry is stored under the discovered value
GraphAppendUnderValue(g, target, entry) ==
    IF entry.value \in DOMAIN g
    THEN [g EXCEPT ![entry.value] = Append(@, entry)]
    ELSE g @@ (entry.value :> <<entry>>)

\* self.graph[target].append(entry) on a defaultdict(list)
GraphAppend(g, target, entry) ==
    IF target \in DOMAIN g
    THEN [g EXCEPT ![target] = Append(@, entry)]
    ELSE g @@ (target :> <<entry>>)

\* variant: the discover call is outside the try block
CatchesIterOnly(pc) == pc = "iter"

\* the try/except Exception of the strategy loop covers the discover call
\* and the normalisation of its results
Catches(pc) == pc \in {"strategies", "iter"}

\* variant: the recursive call passes its own depth on
ChildDepthSame(depth) == depth

\* self._recursive_analyze(discovered_item, depth + 1, parent=target)
ChildDepth(depth) == depth + 1

\* variant: the loop over `discovered` never leaves its current item
NextItemStuck(di) == di

\* the for loop over `discovered` moves on to the next item
NextItem(di) == di + 1

\* variant: analyze keeps the visited set of the previous run
ClearVisitedNot(v) == v

\* analyze: self.visited.clear()
ClearVisited(v) == {}

\* analyze: self.graph.clear()
ClearGraph(g) == EmptyGraph

\* analyze: self.all_results = {...}
ClearResults(ar) == EmptyResults

\* variant: the totals count the discoveries of the log, not the members
\* of the sets
AnalyzeResultCountingLog(root, ar, g) ==
    [initial_domain |-> root,
     domains |-> SortedSeq(ar.domains),
     ips |-> SortedSeq(ar.ips),
     relationships |-> ar.relationships,
     graph |-> g,
     stats |-> [total_domains |->
                   Len(SelectSeq(ar.relationships,
                                 LAMBDA r : r.type = "domain")),
                total_ips |->
                   Len(SelectSeq(ar.relationships,
                                 LAMBDA r : r.type = "ip")),
                total_relationships |-> Len(ar.relationships)]]

\* the dict analyze returns
AnalyzeResult(root, ar, g) ==
    [initial_domain |-> root,
     domains |-> SortedSeq(ar.domains),
     ips |-> SortedSeq(ar.ips),
     relationships |-> ar.relationships,
     graph |-> g,
     stats |-> [total_domains |-> Cardinality(ar.domains),
                total_ips |-> Cardinality(ar.ips),
                total_relationships |-> Len(ar.relationships)]]


\* ------------------------------------------- names used by the models
WWW        == <<"w", "w", "w">>
MAIL       == <<"m", "a", "i", "l">>
SIP        == <<"_", "s", "i", "p">>
TCP        == <<"_", "t", "c", "p">>
UDP        == <<"_", "u", "d", "p">>
COM        == <<"c", "o", "m">>
FR         == <<"f", "r">>
GOUV_FR    == <<"g", "o", "u", "v", ".", "f", "r">>
A_FR       == <<"a", ".", "f", "r">>
B_A_FR     == <<"b", ".", "a", ".", "f", "r">>
B_A_FR_DOT == <<"b", ".", "a", ".", "f", "r", ".">>
C_FR       == <<"c", ".", "f", "r">>
C_GOUV_FR  == <<"c", ".">> \o GOUV_FR
B_C_GOUV_FR == <<"b", ".">> \o C_GOUV_FR
A_B_C_GOUV_FR == <<"a", ".">> \o B_C_GOUV_FR
A_FR_UPPER == <<"A", ".", "F", "R">>
X          == <<"x">>
IP4        == <<"1", ".", "2", ".", "3", ".", "4">>
IP5        == <<"1", ".", "2", ".", "3", ".", "5">>
IP5_BLANK  == <<" ", "1", ".", "2", ".", "3", ".", "5">>
IP_LOW     == <<"0", ".", "0", ".", "0", ".", "1">>
IP_CARRY   == <<"1", ".", "2", ".", "3", ".", "2", "5", "5">>
IP_HIGH    == <<"2", "5", "5", ".", "2", "5", "5", ".", "2", "5", "5", ".",
               "2", "5", "5">>
THREE_DOT  == <<"3", ".">>
ZERO       == <<"0">>
PORT       == <<"4", "4", "3">>

MaxScanRange == 2     \* largest scan_range tried

\* ============================================================ strategies
\* Strings are sequences of one-character strings.
Digits  == {"0", "1", "2", "3", "4", "5", "6", "7", "8", "9"}
Letters == {"a", "b", "c", "d", "e", "f", "g", "h", "i", "j", "k", "l", "m",
            "n", "o", "p", "q", "r", "s", "t", "u", "v", "w", "x", "y", "z",
            "A", "F", "R"}

NoName == <<>>          \* None or '': both are false in `if ptr_domain`

\* excluded in domain
IsSubstring(e, d) ==
    \E i \in 0..(Len(d) - Len(e)) : SubSeq(d, i + 1, i + Len(e)) = e

\* variant: the exclusion entries are compared with the whole value
should_exclude_exact(exclude, domain) == domain \in exclude

\* Strategy.should_exclude
should_exclude(exclude, domain) ==
    \E e \in exclude : IsSubstring(e, domain)

RECURSIVE RStripDot(_)
\* str.rstrip('.')
RStripDot(x) ==
    IF x # <<>> /\ x[Len(x)] = "." THEN RStripDot(SubSeq(x, 1, Len(x) - 1))
    ELSE x

RECURSIVE Strip(_)
\* str.strip(): blanks at both ends
Strip(x) ==
    IF x # <<>> /\ x[1] = " " THEN Strip(Tail(x))
    ELSE IF x # <<>> /\ x[Len(x)] = " "
         THEN Strip(SubSeq(x, 1, Len(x) - 1))
         ELSE x

LowerChar(c) ==
    CASE c = "A" -> "a" [] c = "F" -> "f" [] c = "R" -> "r" [] OTHER -> c

\* str.lower()
Lower(x) == [i \in 1..Len(x) |-> LowerChar(x[i])]

RECURSIVE Split(_)
\* str.split('.')
Split(x) ==
    IF \A i \in 1..Len(x) : x[i] # "." THEN <<x>>
    ELSE LET k == CHOOSE i \in 1..Len(x) :
                     x[i] = "." /\ \A j \in 1..(i - 1) : x[j] # "."
         IN  <<SubSeq(x, 1, k - 1)>> \o Split(SubSeq(x, k + 1, Len(x)))

RECURSIVE Join(_)
\* '.'.join(parts)
Join(parts) ==
    IF parts = <<>> THEN <<>>
    ELSE IF Len(parts) = 1 THEN parts[1]
    ELSE parts[1] \o <<".">> \o Join(Tail(parts))

\* dns_functions.is_valid_domain
is_valid_domain(domain) ==
    /\ domain # <<>> /\ Len(domain) <= 253
    /\ LET parts == Split(RStripDot(domain))
       IN  /\ Len(parts) >= 2
           /\ \A i \in 1..Len(parts) :
                /\ parts[i] # <<>> /\ Len(parts[i]) <= 63
                /\ parts[i][1] \in Letters \cup Digits

DigitVal(c) ==
    CASE c = "0" -> 0 [] c = "1" -> 1 [] c = "2" -> 2 [] c = "3" -> 3
      [] c = "4" -> 4 [] c = "5" -> 5 [] c = "6" -> 6 [] c = "7" -> 7
      [] c = "8" -> 8 [] c = "9" -> 9 [] OTHER -> 0

DigitChar(n) == CHOOSE c \in Digits : DigitVal(c) = n

RECURSIVE Decimal(_)
\* int(text) of a string of digits
Decimal(x) ==
    IF x = <<>> THEN 0
    ELSE 10 * Decimal(SubSeq(x, 1, Len(x) - 1)) + DigitVal(x[Len(x)])

RECURSIVE Numeral(_)
\* str(n) of a natural number
Numeral(n) ==
    IF n < 10 THEN <<DigitChar(n)>>
    ELSE Numeral(n \div 10) \o <<DigitChar(n % 10)>>

IsOctet(x) ==
    /\ x # <<>> /\ Len(x) <= 3
    /\ \A i \in 1..Len(x) : x[i] \in Digits
    /\ Decimal(x) <= 255
    /\ (Len(x) > 1 => x[1] # "0")

\* dns_functions.is_valid_ip, for dotted-quad IPv4 text
is_valid_ip(ip) ==
    LET parts == Split(ip)
    IN  Len(parts) = 4 /\ \A i \in 1..4 : IsOctet(parts[i])

\* ipaddress.ip_address(text): the four octets
Octets(ip) == [i \in 1..4 |-> Decimal(Split(ip)[i])]

\* str(IPv4Address)
IpText(o) == Join([i \in 1..4 |-> Numeral(o[i])])

OutOfRange == <<>>      \* ip_obj + offset raises AddressValueError

IpSucc(o) ==
    IF o[4] < 255 THEN [o EXCEPT ![4] = @ + 1]
    ELSE IF o[3] < 255 THEN [o EXCEPT ![3] = @ + 1, ![4] = 0]
    ELSE IF o[2] < 255 THEN [o EXCEPT ![2] = @ + 1, ![3] = 0, ![4] = 0]
    ELSE IF o[1] < 255 THEN <<o[1] + 1, 0, 0, 0>>
    ELSE OutOfRange

IpPred(o) ==
    IF o[4] > 0 THEN [o EXCEPT ![4] = @ - 1]
    ELSE IF o[3] > 0 THEN [o EXCEPT ![3] = @ - 1, ![4] = 255]
    ELSE IF o[2] > 0 THEN [o EXCEPT ![2] = @ - 1, ![3] = 255, ![4] = 255]
    ELSE IF o[1] > 0 THEN <<o[1] - 1, 255, 255, 255>>
    ELSE OutOfRange

RECURSIVE IpAdd(_, _)
\* ip_obj + offset
IpAdd(o, k) ==
    IF o = OutOfRange \/ k = 0 THEN o
    ELSE IF k > 0 THEN IpAdd(IpSucc(o), k - 1)
    ELSE IpAdd(IpPred(o), k + 1)

\* ---------------------------------------------------------- the resolver
\* A zone is what the resolver answers during one discover call:
\*   records: <<name, type>> -> answers of query_dns (absent: no answer)
\*   ptr:     ip -> raw PTR answers
\*   txt:     name -> TXT records, each given by the matches the regular
\*            expressions of TXTParserStrategy find in it
\*   srv:     name -> SRV records, each given by the fields of record.split()
Fn(K, v) == [k \in K |-> v]

NoZone == [records |-> Fn({}, <<>>), ptr |-> Fn({}, <<>>),
           txt |-> Fn({}, <<>>), srv |-> Fn({}, <<>>)]

\* dns_functions.query_dns
query_dns(zone, name, type) ==
    IF <<name, type>> \in DOMAIN zone.records
    THEN zone.records[<<name, type>>] ELSE <<>>

\* dns_functions.reverse_dns
reverse_dns(zone, ip) ==
    IF ip \in DOMAIN zone.ptr /\ zone.ptr[ip] # <<>>
    THEN RStripDot(zone.ptr[ip][1]) ELSE NoName

AnyRecord(zone, name, types) ==
    \E i \in 1..Len(types) : query_dns(zone, name, types[i]) # <<>>

\* ------------------------------------------------- results of a strategy
Nothing == [raises |-> FALSE, results |-> {}]

\* results built by a _create_result that returns a tuple
Returned(rs) == [raises |-> FALSE, results |-> rs]

\* results built by a _create_result that returns a dict:
\* results.add(dict) raises TypeError (unhashable type), so discover
\* raises as soon as it has something to add
AddedDicts(rs) ==
    IF rs = {} THEN Nothing ELSE [raises |-> TRUE, results |-> {}]

Res(type, value, source) ==
    [type |-> type, value |-> value, source |-> source]

\* the PTR name of ip, unless absent or excluded
PtrResults(zone, exclude, ip, source) ==
    LET ptr_domain == reverse_dns(zone, ip)
    IN  IF ptr_domain # NoName /\ ~should_exclude(exclude, ptr_domain)
        THEN {Res("domain", ptr_domain, source)} ELSE {}

\* ReverseDNSStrategy.discover
ReverseDNSDiscover(target, exclude, zone) ==
    IF is_valid_ip(target)
    THEN Returned(PtrResults(zone, exclude, target,
                             <<"Reverse DNS of", target>>))
    ELSE IF ~is_valid_domain(target) THEN Nothing
    ELSE LET ips == query_dns(zone, target, "A")
                    \o query_dns(zone, target, "AAAA")
         IN  Returned(UNION {
                 LET ip == Strip(ips[i])
                 IN  {Res("ip", ip, <<"A/AAAA record of", target>>)}
                     \cup PtrResults(zone, exclude, ip,
                                     <<"Reverse DNS of", ip, target>>)
                 : i \in 1..Len(ips) })

\* variant: one try block around the whole loop over the offsets, so the
\* scan ends at the first neighbour outside the address space
IPNeighborsDiscoverOneTry(target, exclude, zone, scan_range) ==
    IF ~is_valid_ip(target) THEN Nothing
    ELSE Returned(UNION {
             LET neighbor_ip == IpAdd(Octets(target), offset)
             IN  IF \/ offset = 0
                    \/ \E k \in (0 - scan_range)..offset :
                          IpAdd(Octets(target), k) = OutOfRange
                 THEN {}
                 ELSE {Res("ip", IpText(neighbor_ip),
                           <<"Neighbor of", target>>)}
                      \cup PtrResults(zone, exclude, IpText(neighbor_ip),
                             <<"Reverse DNS of neighbor",
                               IpText(neighbor_ip)>>)
             : offset \in (0 - scan_range)..scan_range })

\* IPNeighborsStrategy.discover
IPNeighborsDiscover(target, exclude, zone, scan_range) ==
    IF ~is_valid_ip(target) THEN Nothing
    ELSE Returned(UNION {
             LET neighbor_ip == IpAdd(Octets(target), offset)
             IN  IF offset = 0 \/ neighbor_ip = OutOfRange THEN {}
                 ELSE {Res("ip", IpText(neighbor_ip),
                           <<"Neighbor of", target>>)}
                      \cup PtrResults(zone, exclude, IpText(neighbor_ip),
                             <<"Reverse DNS of neighbor",
                               IpText(neighbor_ip)>>)
             : offset \in (0 - scan_range)..scan_range })

\* TXTParserStrategy.discover
TXTParserDiscover(target, exclude, zone) ==
    LET txt_records == IF target \in DOMAIN zone.txt THEN zone.txt[target]
                       ELSE <<>>
    IN  Returned(UNION {
            LET rec == txt_records[n]
            IN  { Res("domain", RStripDot(Lower(rec.domains[i])),
                      <<"TXT record of", target>>) :
                    i \in { j \in 1..Len(rec.domains) :
                        LET domain == RStripDot(Lower(rec.domains[j]))
                        IN  /\ is_valid_domain(domain)
                            /\ ~should_exclude(exclude, domain) } }
                \cup
                { Res("ip", rec.ipv4s[i], <<"TXT record of", target>>) :
                    i \in { j \in 1..Len(rec.ipv4s) :
                              is_valid_ip(rec.ipv4s[j]) } }
            : n \in 1..Len(txt_records) })

\* SubdomainEnumStrategy.COMMON_SUBDOMAINS, its first two entries
COMMON_SUBDOMAINS == <<WWW, MAIL>>

\* SubdomainEnumStrategy.discover
SubdomainEnumDiscover(target, exclude, zone) ==
    IF ~is_valid_domain(target) THEN Nothing
    ELSE Returned(UNION {
             LET subdomain == COMMON_SUBDOMAINS[n]
                 test_domain == subdomain \o <<".">> \o target
                 cnames == query_dns(zone, test_domain, "CNAME")
             IN  IF AnyRecord(zone, test_domain, <<"A", "AAAA", "CNAME">>)
                    /\ ~should_exclude(exclude, test_domain)
                 THEN {Res("domain", test_domain,
                           <<"Subdomain enumeration of", target>>)}
                      \cup
                      { Res("domain", RStripDot(cnames[i]),
                            <<"CNAME of", test_domain>>) :
                          i \in { j \in 1..Len(cnames) :
                             /\ is_valid_domain(RStripDot(cnames[j]))
                             /\ ~should_exclude(exclude,
                                                RStripDot(cnames[j])) } }
                 ELSE {}
             : n \in 1..Len(COMMON_SUBDOMAINS) })

\* SRVScannerStrategy.COMMON_SERVICES, its first two entries
COMMON_SERVICES == <<<<SIP, TCP>>, <<SIP, UDP>>>>

\* SRVScannerStrategy.discover
SRVScannerDiscover(target, exclude, zone) ==
    IF ~is_valid_domain(target) THEN Nothing
    ELSE AddedDicts(UNION {
             LET srv_query == COMMON_SERVICES[n][1] \o <<".">>
                              \o COMMON_SERVICES[n][2] \o <<".">> \o target
                 srv_records == IF srv_query \in DOMAIN zone.srv
                                THEN zone.srv[srv_query] ELSE <<>>
             IN  { Res("domain", RStripDot(srv_records[i][4]),
                       <<"SRV record", srv_query>>) :
                     i \in { j \in 1..Len(srv_records) :
                        /\ Len(srv_records[j]) >= 4
                        /\ is_valid_domain(RStripDot(srv_records[j][4]))
                        /\ ~should_exclude(exclude,
                                  RStripDot(srv_records[j][4])) } }
             : n \in 1..Len(COMMON_SERVICES) })

\* TLDCrawlerStrategy.COMMON_TLDS, three of its entries
COMMON_TLDS == {COM, FR, GOUV_FR}

\* TLDCrawlerStrategy._find_tld_index: 0-based index of the first label of
\* the TLD
find_tld_index(parts) ==
    IF Len(parts) >= 2
       /\ Join(SubSeq(parts, Len(parts) - 1, Len(parts))) \in COMMON_TLDS
    THEN Len(parts) - 2
    ELSE Len(parts) - 1

\* TLDCrawlerStrategy._is_tld
is_tld(domain) == domain \in COMMON_TLDS

\* TLDCrawlerStrategy._domain_exists
domain_exists(zone, domain) ==
    AnyRecord(zone, domain, <<"A", "AAAA", "MX", "NS", "SOA">>)

\* '.'.join(parts[i + 1:]) for the 0-based loop index i
ParentDomain(parts, i) == Join(SubSeq(parts, i + 2, Len(parts)))

\* TLDCrawlerStrategy.discover
TLDCrawlerDiscover(target, exclude, zone) ==
    LET domain == RStripDot(Lower(target))
    IN  IF ~is_valid_domain(domain) THEN Nothing
        ELSE LET parts == Split(domain)
                 tld_index == find_tld_index(parts)
                 loop == 0..(Len(parts) - tld_index - 2)
                 \* the loop breaks at the first parent that is a TLD
                 ran == { i \in loop :
                            \A j \in 0..i : ~is_tld(ParentDomain(parts, j)) }
             IN  AddedDicts(
                   { Res("domain", ParentDomain(parts, i),
                         <<"Parent domain of", target>>) :
                       i \in { j \in ran :
                          /\ domain_exists(zone, ParentDomain(parts, j))
                          /\ ~should_exclude(exclude,
                                             ParentDomain(parts, j)) } })

\* ------------------------------------------- inputs of the discover calls
ProbeTargets ==
    {A_FR, B_A_FR, A_B_C_GOUV_FR, IP4, IP_LOW, IP_CARRY, IP_HIGH, X}

\* --exclude entries: a domain suffix, and digits that occur in addresses
ExcludeSets == SUBSET {A_FR, THREE_DOT}

ScanRanges == {1, MaxScanRange}

PtrAnswers == {<<>>, <<B_A_FR_DOT>>, <<C_FR>>}

AddrAnswers == {<<>>, <<IP4>>, <<IP5_BLANK, IP4>>}

CnameAnswers == {<<>>, <<B_A_FR_DOT>>, <<C_FR>>}

TxtAnswers ==
    {<<>>} \cup
    { <<[domains |-> d, ipv4s |-> i]>> :
        d \in {<<>>, <<B_A_FR>>, <<A_FR_UPPER, C_FR>>},
        i \in {<<>>, <<IP4>>} }

SrvAnswers ==
    {<<>>, <<<<ZERO, ZERO, PORT>>>>, <<<<ZERO, ZERO, PORT, C_FR>>>>,
     <<<<ZERO, ZERO, PORT, B_A_FR_DOT>>>>}

Neighbors(target, r) ==
    IF is_valid_ip(target)
    THEN { IpText(IpAdd(Octets(target), k)) :
             k \in { j \in (0 - r)..r :
                       IpAdd(Octets(target), j) # OutOfRange } }
    ELSE {}

ReverseZones(target) ==
    { [NoZone EXCEPT !.records = (<<target, "A">> :> a), !.ptr = p] :
        a \in AddrAnswers,
        p \in [IF is_valid_ip(target) THEN {target} ELSE {IP4, IP5}
               -> PtrAnswers] }

NeighborZones(target, r) ==
    { [NoZone EXCEPT !.ptr = p] : p \in [Neighbors(target, r) -> PtrAnswers] }

TxtZones(target) ==
    { [NoZone EXCEPT !.txt = (target :> t)] : t \in TxtAnswers }

SubdomainZones(target) ==
    { [NoZone EXCEPT !.records =
          (<<WWW \o <<".">> \o target, "A">> :> a)
          @@ (<<MAIL \o <<".">> \o target, "CNAME">> :> c)] :
        a \in AddrAnswers, c \in CnameAnswers }

SrvZones(target) ==
    { [NoZone EXCEPT !.srv =
          (SIP \o <<".">> \o TCP \o <<".">> \o target :> v)] :
        v \in SrvAnswers }

\* the names above target in the hierarchy: parts[i:] for every i >= 1
Suffixes(target) ==
    LET parts == Split(target)
    IN  { Join(SubSeq(parts, i, Len(parts))) : i \in 2..Len(parts) }

\* any set of those names may exist
TldZones(target) ==
    { [NoZone EXCEPT !.records = [k \in (E \X {"A"}) |-> <<IP4>>]] :
        E \in SUBSET Suffixes(target) }

NoProbe ==
    [strategy |-> "none", target |-> <<>>, exclude |-> {},
     scan_range |-> 1, zone |-> NoZone, ret |-> Nothing]

Probed(name, zone, ret) ==
    [probe EXCEPT !.strategy = name, !.zone = zone, !.ret = ret]

\* ------------------------------------------------------------------ Init
EngineInit(budgets) ==
    /\ max_depth \in -1..MaxDepthBound
    /\ visited = {}
    /\ graph = EmptyGraph
    /\ all_results = EmptyResults
    /\ stack = <<>>
    /\ status = "idle"
    /\ initial_domain = NoRoot
    /\ result = NoResult
    /\ world = [k \in {} |-> [raises |-> FALSE, out |-> <<>>]]
    /\ known = 0
    /\ runs = 0
    /\ budget \in budgets
    /\ expansions = [t \in 1..MaxValues |-> 0]
    /\ rejected = {}
    /\ invoked = <<>>
    /\ hops = {}
    /\ memo = [t \in {} |-> NoResult]
    /\ events = <<>>

\* the engine as constructed: run once with many stub results, or run
\* again and again with few
Init ==
    /\ EngineInit({[runs |-> 1, edges |-> MaxEdges],
                   [runs |-> MaxRuns, edges |-> RerunEdges]})
    /\ probe = NoProbe

FairInit ==
    /\ EngineInit({[runs |-> 1, edges |-> LiveEdges],
                   [runs |-> MaxRuns, edges |-> RerunEdges]})
    /\ probe = NoProbe

\* --------------------------------------------------------------- actions
\* analyze(initial_domain), up to the first call of _recursive_analyze
Analyze ==
    /\ status \in {"idle", "done"}
    /\ runs < budget.runs
    /\ \E root \in 1..Min(known + 1, MaxValues) :
         /\ initial_domain' = root
         /\ known' = Max(known, root)
         /\ stack' = <<Frame(root, 0, NoParent)>>
    /\ visited' = ClearVisited(visited)
    /\ graph' = ClearGraph(graph)
    /\ all_results' = ClearResults(all_results)
    /\ status' = "running"
    /\ runs' = runs + 1
    /\ expansions' = [t \in 1..MaxValues |-> 0]
    /\ rejected' = {}
    /\ invoked' = <<>>
    /\ hops' = {}
    /\ events' = <<>>
    /\ UNCHANGED <<max_depth, budget, result, world, memo, probe>>

\* _recursive_analyze returns at one of its two guards
GuardReturn ==
    /\ status = "running" /\ stack # <<>> /\ Top.pc = "enter"
    /\ \/ DepthExceeded(Top.depth, max_depth)
       \/ AlreadyVisited(Top.target, visited)
    /\ stack' = SubSeq(stack, 1, Len(stack) - 1)
    /\ rejected' = IF DepthExceeded(Top.depth, max_depth)
                   THEN rejected \cup {Top.target} ELSE rejected
    /\ events' = Append(events,
                    Event(IF DepthExceeded(Top.depth, max_depth)
                          THEN "too deep" ELSE "seen", Top, 0, visited))
    /\ UNCHANGED <<max_depth, budget, visited, graph, all_results, status,
                   initial_domain, result, world, known, runs, expansions,
                   invoked, hops, memo, probe>>

\* _recursive_analyze passes both guards and marks the target visited
Expand ==
    /\ status = "running" /\ stack # <<>> /\ Top.pc = "enter"
    /\ ~DepthExceeded(Top.depth, max_depth)
    /\ ~AlreadyVisited(Top.target, visited)
    /\ visited' = MarkVisited(visited, Top.target)
    /\ stack' = SetTop([Top EXCEPT !.pc = "strategies",
                                   !.context = Context(Top.depth, Top.parent)])
    /\ expansions' = [expansions EXCEPT ![Top.target] = @ + 1]
    /\ events' = Append(events, Event("expand", Top, 0, visited'))
    /\ UNCHANGED <<max_depth, budget, graph, all_results, status,
                   initial_domain, result, world, known, runs, rejected,
                   invoked, hops, memo, probe>>

\* An exception raised in frame f at its current pc: absorbed by the
\* except clause (next strategy), or it unwinds the whole call stack.
\* variant: the try block is inside the loop over the results, so a
\* malformed result is skipped and the results after it are still taken
HandledPerResult(f) ==
    IF f.pc = "iter"
    THEN [f EXCEPT !.results = Tail(@), !.cur = NoCur]
    ELSE [f EXCEPT !.pc = "strategies", !.si = @ + 1, !.results = <<>>,
                   !.cur = NoCur]

\* variant: a fault ends the strategy loop of the target
HandledBreak(f) ==
    [f EXCEPT !.pc = "strategies", !.si = Len(Roster) + 1, !.results = <<>>,
              !.cur = NoCur]

\* except Exception: report, then go on with the next strategy
Handled(f) ==
    [f EXCEPT !.pc = "strategies", !.si = @ + 1, !.results = <<>>,
              !.cur = NoCur]

AfterFault(f) ==
    IF Catches(f.pc)
    THEN [stack |-> SetTop(Handled(f)), status |-> "running"]
    ELSE [stack |-> <<>>, status |-> "crashed"]

\* results = strategy.discover(target, context)
Discover ==
    /\ status = "running" /\ stack # <<>> /\ Top.pc = "strategies"
    /\ Top.si <= Len(Roster)
    /\ LET s == Roster[Top.si]
           key == <<s, Top.target>>
       IN  /\ IF key \in DOMAIN world
              THEN UNCHANGED <<world, known>>
              ELSE \E o \in Outcomes(s, world, known, budget.edges) :
                     /\ world' = world @@ (key :> o)
                     /\ known' = MaxNamed(o.out, known)
           /\ invoked' = Append(invoked, key)
           /\ events' = Append(events,
                           Event("discover",
                                 [Top EXCEPT !.depth = Top.context.depth,
                                             !.parent = Top.context.parent],
                                 s, visited))
           /\ IF world'[key].raises
              THEN /\ stack' = AfterFault(Top).stack
                   /\ status' = AfterFault(Top).status
              ELSE /\ stack' = SetTop([Top EXCEPT !.pc = "iter",
                                         !.results = world'[key].out])
                   /\ UNCHANGED status
    /\ UNCHANGED <<max_depth, budget, visited, graph, all_results,
                   initial_domain, result, runs, expansions, rejected, hops,
                   memo, probe>>

\* for result in results: normalise the next result, or leave the loop
Iterate ==
    /\ status = "running" /\ stack # <<>> /\ Top.pc = "iter"
    /\ IF Top.results = <<>>
       THEN /\ stack' = SetTop([Top EXCEPT !.pc = "strategies",
                                           !.si = @ + 1])
            /\ UNCHANGED status
       ELSE LET n == Normalize(Head(Top.results))
            IN  IF n.ok
                THEN /\ stack' = SetTop([Top EXCEPT !.pc = "addset",
                                            !.cur = n.cur,
                                            !.results = Tail(@)])
                     /\ UNCHANGED status
                ELSE /\ stack' = AfterFault(Top).stack
                     /\ status' = AfterFault(Top).status
    /\ UNCHANGED <<max_depth, budget, visited, graph, all_results,
                   initial_domain, result, world, known, runs, expansions,
                   rejected, invoked, hops, memo, events, probe>>

\* self.all_results['domains' | 'ips'].add(result_value)
AddSet ==
    /\ status = "running" /\ stack # <<>> /\ Top.pc = "addset"
    /\ all_results' = AddToSets(all_results, Top.cur)
    /\ hops' = hops \cup {<<Top.cur.value, Len(stack)>>}
    /\ stack' = SetTop([Top EXCEPT !.pc = "addrel"])
    /\ UNCHANGED <<max_depth, budget, visited, graph, status,
                   initial_domain, result, world, known, runs, expansions,
                   rejected, invoked, memo, events, probe>>

\* variant: a relationship whose from, to and type are already in the log
\* is not appended again
AddRelDeduplicated ==
    /\ status = "running" /\ stack # <<>> /\ Top.pc = "addrel"
    /\ all_results' =
         IF \E k \in 1..Len(all_results.relationships) :
               /\ all_results.relationships[k].from = Top.target
               /\ all_results.relationships[k].to = Top.cur.value
               /\ all_results.relationships[k].type = Top.cur.type
         THEN all_results
         ELSE [all_results EXCEPT !.relationships =
                 Append(@, Relationship(Top.target, Top.cur, Top.depth))]
    /\ stack' = SetTop([Top EXCEPT !.pc = "addgraph"])
    /\ UNCHANGED <<max_depth, budget, visited, graph, status,
                   initial_domain, result, world, known, runs, expansions,
                   rejected, invoked, hops, memo, events, probe>>

\* self.all_results['relationships'].append(relationship)
AddRel ==
    /\ status = "running" /\ stack # <<>> /\ Top.pc = "addrel"
    /\ all_results' = [all_results EXCEPT !.relationships =
                         Append(@, Relationship(Top.target, Top.cur,
                                                Top.depth))]
    /\ stack' = SetTop([Top EXCEPT !.pc = "addgraph"])
    /\ UNCHANGED <<max_depth, budget, visited, graph, status,
                   initial_domain, result, world, known, runs, expansions,
                   rejected, invoked, hops, memo, events, probe>>

\* self.graph[target].append({...})
AddGraph ==
    /\ status = "running" /\ stack # <<>> /\ Top.pc = "addgraph"
    /\ graph' = GraphAppend(graph, Top.target, GraphEntry(Top.cur))
    /\ stack' = SetTop([Top EXCEPT !.pc = "adddisc"])
    /\ UNCHANGED <<max_depth, budget, visited, all_results, status,
                   initial_domain, result, world, known, runs, expansions,
                   rejected, invoked, hops, memo, events, probe>>

\* variant: the value is put at the front of `discovered`
AddDiscoveredFirst ==
    /\ status = "running" /\ stack # <<>> /\ Top.pc = "adddisc"
    /\ stack' = SetTop([Top EXCEPT !.pc = "iter", !.cur = NoCur,
                                   !.discovered = <<Top.cur.value>> \o @])
    /\ UNCHANGED <<max_depth, budget, visited, graph, all_results, status,
                   initial_domain, result, world, known, runs, expansions,
                   rejected, invoked, hops, memo, events, probe>>

\* discovered.append(result_value)
AddDiscovered ==
    /\ status = "running" /\ stack # <<>> /\ Top.pc = "adddisc"
    /\ stack' = SetTop([Top EXCEPT !.pc = "iter", !.cur = NoCur,
                                   !.discovered = Append(@, Top.cur.value)])
    /\ UNCHANGED <<max_depth, budget, visited, graph, all_results, status,
                   initial_domain, result, world, known, runs, expansions,
                   rejected, invoked, hops, memo, events, probe>>

\* the strategy loop is over: start the loop over `discovered`
StartRecursion ==
    /\ status = "running" /\ stack # <<>> /\ Top.pc = "strategies"
    /\ Top.si > Len(Roster)
    /\ stack' = SetTop([Top EXCEPT !.pc = "recurse"])
    /\ UNCHANGED <<max_depth, budget, visited, graph, all_results, status,
                   initial_domain, result, world, known, runs, expansions,
                   rejected, invoked, hops, memo, events, probe>>

\* if discovered_item not in self.visited: self._recursive_analyze(...)
Recurse ==
    /\ status = "running" /\ stack # <<>> /\ Top.pc = "recurse"
    /\ Top.di <= Len(Top.discovered)
    /\ LET item == Top.discovered[Top.di]
           caller == [Top EXCEPT !.di = NextItem(@)]
       IN  IF item \notin visited
           THEN stack' = Append(SetTop(caller),
                                Frame(item, ChildDepth(Top.depth),
                                      Top.target))
           ELSE stack' = SetTop(caller)
    /\ UNCHANGED <<max_depth, budget, visited, graph, all_results, status,
                   initial_domain, result, world, known, runs, expansions,
                   rejected, invoked, hops, memo, events, probe>>

\* _recursive_analyze returns after its last discovered item
Return ==
    /\ status = "running" /\ stack # <<>> /\ Top.pc = "recurse"
    /\ Top.di > Len(Top.discovered)
    /\ stack' = SubSeq(stack, 1, Len(stack) - 1)
    /\ UNCHANGED <<max_depth, budget, visited, graph, all_results, status,
                   initial_domain, result, world, known, runs, expansions,
                   rejected, invoked, hops, memo, events, probe>>

\* analyze builds and returns its dict
AnalyzeReturn ==
    /\ status = "running" /\ stack = <<>> /\ initial_domain # NoRoot
    /\ result' = AnalyzeResult(initial_domain, all_results, graph)
    /\ memo' = IF initial_domain \in DOMAIN memo THEN memo
               ELSE memo @@ (initial_domain :> result')
    /\ status' = "done"
    /\ UNCHANGED <<max_depth, budget, visited, graph, all_results, stack,
                   initial_domain, world, known, runs, expansions, rejected,
                   invoked, hops, events, probe>>

\* one step of a running analyze call
Step ==
    \/ GuardReturn \/ Expand \/ Discover \/ Iterate \/ AddSet \/ AddRel
    \/ AddGraph \/ AddDiscovered \/ StartRecursion \/ Recurse \/ Return
    \/ AnalyzeReturn

Next == Analyze \/ Step

Spec == Init /\ [][Next]_vars

\* the interpreter keeps executing a running call
FairSpec == FairInit /\ [][Next]_vars /\ WF_vars(Step)


\* ------------------------------ _recursive_analyze called on its own
\* A caller (a test) invokes engine._recursive_analyze(target, depth)
\* directly, between analyze calls: nothing is cleared first, so the
\* visited set is the one the last run left.
Call ==
    /\ status \in {"idle", "done"}
    /\ runs < budget.runs
    /\ \E target \in 1..Min(known + 1, MaxValues),
          depth \in 0..(MaxDepthBound + 1) :
         /\ stack' = <<Frame(target, depth, NoParent)>>
         /\ known' = Max(known, target)
    /\ initial_domain' = NoRoot
    /\ status' = "running"
    /\ runs' = runs + 1
    /\ UNCHANGED <<max_depth, budget, visited, graph, all_results, result,
                   world, expansions, rejected, invoked, hops, memo, events,
                   probe>>

\* the direct call returns to its caller
CallReturn ==
    /\ status = "running" /\ stack = <<>> /\ initial_domain = NoRoot
    /\ status' = "idle"
    /\ UNCHANGED <<max_depth, budget, visited, graph, all_results, stack,
                   initial_domain, result, world, known, runs, expansions,
                   rejected, invoked, hops, memo, events, probe>>

CallInit ==
    /\ EngineInit({[runs |-> MaxRuns, edges |-> RerunEdges]})
    /\ probe = NoProbe

CallNext == Next \/ Call \/ CallReturn

CallSpec == CallInit /\ [][CallNext]_vars


\* -------------------------------------- one discover call of a strategy
\* (each behaviour makes one call: the inputs are drawn by StratInit, the
\* resolver's answers by the call)
StratInit ==
    /\ EngineInit({[runs |-> 0, edges |-> 0]})
    /\ \E t \in ProbeTargets, e \in ExcludeSets, r \in ScanRanges :
         probe = [NoProbe EXCEPT !.target = t, !.exclude = e,
                                 !.scan_range = r]

EngineUnchanged ==
    UNCHANGED <<max_depth, budget, visited, graph, all_results, stack,
                status, initial_domain, result, world, known, runs,
                expansions, rejected, invoked, hops, memo, events>>

ProbeReverseDNS ==
    /\ probe.strategy = "none"
    /\ \E z \in ReverseZones(probe.target) :
         probe' = Probed("ReverseDNS", z,
                    ReverseDNSDiscover(probe.target, probe.exclude, z))
    /\ EngineUnchanged

ProbeIPNeighbors ==
    /\ probe.strategy = "none"
    /\ \E z \in NeighborZones(probe.target, probe.scan_range) :
         probe' = Probed("IPNeighbors", z,
                    IPNeighborsDiscover(probe.target, probe.exclude, z,
                                        probe.scan_range))
    /\ EngineUnchanged

ProbeTXTParser ==
    /\ probe.strategy = "none"
    /\ \E z \in TxtZones(probe.target) :
         probe' = Probed("TXTParser", z,
                    TXTParserDiscover(probe.target, probe.exclude, z))
    /\ EngineUnchanged

ProbeSubdomainEnum ==
    /\ probe.strategy = "none"
    /\ \E z \in SubdomainZones(probe.target) :
         probe' = Probed("SubdomainEnum", z,
                    SubdomainEnumDiscover(probe.target, probe.exclude, z))
    /\ EngineUnchanged

ProbeSRVScanner ==
    /\ probe.strategy = "none"
    /\ \E z \in SrvZones(probe.target) :
         probe' = Probed("SRVScanner", z,
                    SRVScannerDiscover(probe.target, probe.exclude, z))
    /\ EngineUnchanged

ProbeTLDCrawler ==
    /\ probe.strategy = "none"
    /\ \E z \in TldZones(probe.target) :
         probe' = Probed("TLDCrawler", z,
                    TLDCrawlerDiscover(probe.target, probe.exclude, z))
    /\ EngineUnchanged

StratNext ==
    \/ ProbeReverseDNS \/ ProbeIPNeighbors \/ ProbeTXTParser
    \/ ProbeSubdomainEnum \/ ProbeSRVScanner \/ ProbeTLDCrawler

StratSpec == StratInit /\ [][StratNext]_vars

\* ============================================================ properties
Rels == all_results.relationships

Faulted(o) == o.raises \/ NumShort(o.out) > 0

RECURSIVE GoodPrefix(_)
\* the results of a call that precede its first malformed result
GoodPrefix(q) ==
    IF q = <<>> \/ IsShort(Head(q)) THEN <<>>
    ELSE <<Head(q)>> \o GoodPrefix(Tail(q))

\* relationships recorded at target t from the results of strategy s
FromBy(t, s) == SelectSeq(Rels, LAMBDA r : r.from = t /\ r.source = s)

\* adjacency entries under target t from the results of strategy s
AdjBy(t, s) ==
    IF t \in DOMAIN graph
    THEN SelectSeq(graph[t], LAMBDA e : e.source = s)
    ELSE <<>>

TypeValue(q) == [i \in 1..Len(q) |-> <<q[i].items[1], q[i].items[2]>>]

\* ---------------------------------------------------------------- C1
\* C1: every analyze call eventually returns, whatever the stubs answer
\* (cycles, fresh values at every target) and whatever max_depth is.
C1_Termination == (status = "running") ~> (status = "done")

\* a finished run whose discoveries form a cycle between two targets
C1_Witness ==
    /\ status = "done"
    /\ \E i, j \in 1..Len(Rels) :
         /\ Rels[i].from = Rels[j].to /\ Rels[i].to = Rels[j].from
         /\ Rels[i].from # Rels[i].to

\* ---------------------------------------------------------------- C2
\* C2: within one run no target is expanded more than once.
C2_ExpandedAtMostOnce == \A t \in DOMAIN expansions : expansions[t] <= 1

\* a target first turned away by the depth guard, later expanded, and
\* discovered by two different parents
C2_Witness ==
    \E t \in rejected :
       /\ expansions[t] = 1
       /\ \E i, j \in 1..Len(Rels) :
            Rels[i].to = t /\ Rels[j].to = t /\ Rels[i].from # Rels[j].from

\* ---------------------------------------------------------------- C3
\* C3: every relationship of the log, and of the returned result, has a
\* depth in 0..max_depth; with a negative max_depth the log is empty.
C3_DepthBound ==
    /\ \A i \in 1..Len(Rels) :
         Rels[i].depth >= 0 /\ Rels[i].depth <= max_depth
    /\ \A i \in 1..Len(result.relationships) :
         /\ result.relationships[i].depth >= 0
         /\ result.relationships[i].depth <= max_depth
    /\ (max_depth < 0 => Rels = <<>>)

\* a returned result with a relationship recorded at depth max_depth >= 1
C3_Witness ==
    /\ status = "done" /\ max_depth >= 1
    /\ \E i \in 1..Len(result.relationships) :
         result.relationships[i].depth = max_depth

\* ---------------------------------------------------------------- C4
\* C4: in every state, also between the mutations of one discovery, the
\* 'to' of a 'domain' relationship is in domains and the 'to' of an 'ip'
\* relationship is in ips.
C4_SetCorrectness ==
    \A i \in 1..Len(Rels) :
       /\ Rels[i].type = "domain" => Rels[i].to \in all_results.domains
       /\ Rels[i].type = "ip" => Rels[i].to \in all_results.ips

\* in the middle of recording an IP discovery: relationship appended,
\* adjacency entry not yet
C4_Witness ==
    /\ stack # <<>> /\ Top.pc = "addgraph" /\ Top.cur.type = "ip"
    /\ Rels # <<>> /\ Rels[Len(Rels)].to = Top.cur.value

\* ---------------------------------------------------------------- C5
\* C5: a raising discover call never escapes analyze, the strategies
\* after it are still invoked on the target, the values collected at the
\* target are still recursed into, and with a raising strategy followed
\* by one returning a single well-formed discovery the result holds that
\* value.
C5_FailureIsolation ==
    /\ status # "crashed"
    /\ \A k \in 1..Len(stack) :
         stack[k].pc = "recurse" =>
            \A i \in 1..Len(Roster) :
               \E n \in 1..Len(invoked) :
                  invoked[n] = <<Roster[i], stack[k].target>>
    /\ status = "done" =>
         \A i \in 1..Len(Rels) :
            Rels[i].to \in visited \/ Rels[i].depth + 1 > max_depth
    /\ (/\ status = "done" /\ max_depth >= 0
        /\ <<Roster[1], initial_domain>> \in DOMAIN world
        /\ <<Roster[2], initial_domain>> \in DOMAIN world
        /\ world[<<Roster[1], initial_domain>>].raises
        /\ Len(world[<<Roster[2], initial_domain>>].out) = 1
        /\ ~IsShort(world[<<Roster[2], initial_domain>>].out[1]))
       => LET v == world[<<Roster[2], initial_domain>>].out[1].items[2]
          IN  /\ v \in Range(result.domains) \cup Range(result.ips)
              /\ \E i \in 1..Len(result.relationships) :
                   result.relationships[i].to = v

\* a finished run in which the first strategy raised at the root and the
\* second returned one discovery there
C5_Witness ==
    /\ status = "done" /\ max_depth >= 0
    /\ <<Roster[1], initial_domain>> \in DOMAIN world
    /\ <<Roster[2], initial_domain>> \in DOMAIN world
    /\ world[<<Roster[1], initial_domain>>].raises
    /\ Len(world[<<Roster[2], initial_domain>>].out) = 1
    /\ ~IsShort(world[<<Roster[2], initial_domain>>].out[1])

\* ---------------------------------------------------------------- C6
\* C6 (as claimed): a strategy invocation in which a fault occurred, in
\* discover or while a result was normalised, leaves no relationship and
\* no adjacency entry in the final result.
C6_FaultedContributesNothing ==
    status = "done" =>
       \A key \in DOMAIN world :
          (key[2] \in visited /\ Faulted(world[key])) =>
             FromBy(key[2], key[1]) = <<>> /\ AdjBy(key[2], key[1]) = <<>>

\* C6 (amended): an invocation contributes exactly the results that were
\* normalised before the fault: nothing when discover itself raised, the
\* results preceding the first malformed one otherwise; those stay in the
\* log, the adjacency list and the sets and are recursed into, and the
\* malformed result and the results after it contribute nothing.
C6_FaultKeepsPrefix ==
    status = "done" =>
       \A key \in DOMAIN world :
          key[2] \in visited =>
             LET kept == TypeValue(GoodPrefix(world[key].out))
                 rs   == FromBy(key[2], key[1])
                 es   == AdjBy(key[2], key[1])
             IN  /\ (world[key].raises => kept = <<>>)
                 /\ Len(rs) = Len(kept) /\ Len(es) = Len(kept)
                 /\ \A i \in 1..Len(kept) :
                      /\ <<rs[i].type, rs[i].to>> = kept[i]
                      /\ <<es[i].type, es[i].value>> = kept[i]
                      /\ kept[i][2] \in
                           all_results.domains \cup all_results.ips
                      /\ \/ kept[i][2] \in visited
                         \/ rs[i].depth + 1 > max_depth

\* a finished run with an expanded target at which a strategy returned a
\* well-formed result followed by a malformed one
C6_Witness ==
    /\ status = "done"
    /\ \E key \in DOMAIN world :
         /\ key[2] \in visited
         /\ Len(world[key].out) = 2
         /\ ~IsShort(world[key].out[1]) /\ IsShort(world[key].out[2])

\* ---------------------------------------------------------------- C7
\* the candidates the resolver handed to the strategy of the probed call
\* that contain an exclusion entry
ExcludedPtrs ==
    { ip \in DOMAIN probe.zone.ptr :
        /\ reverse_dns(probe.zone, ip) # NoName
        /\ should_exclude(probe.exclude, reverse_dns(probe.zone, ip)) }

\* C7 (as claimed): no discovery returned by a strategy, of kind domain
\* or ip, has a value containing an exclusion entry.
C7_NoExcludedValue ==
    \A r \in probe.ret.results :
       \A e \in probe.exclude : ~IsSubstring(e, r.value)

\* C7 (amended): no discovery of kind domain returned by a strategy has a
\* value containing an exclusion entry; discoveries of kind ip are not
\* filtered.
C7_NoExcludedDomain ==
    \A r \in probe.ret.results :
       r.type = "domain" =>
          \A e \in probe.exclude : ~IsSubstring(e, r.value)

\* a call in which the resolver gave a PTR name containing an exclusion
\* entry, and the strategy returned other discoveries but not that name
C7_Witness ==
    /\ probe.strategy \in {"ReverseDNS", "IPNeighbors"}
    /\ ExcludedPtrs # {}
    /\ \E r \in probe.ret.results : r.type = "domain"
    /\ \A ip \in ExcludedPtrs :
          \A r \in probe.ret.results :
             r.value # reverse_dns(probe.zone, ip)

\* ---------------------------------------------------------------- C8
IsCycleWorld(x, y) ==
    \E a, b \in Range(Roster) :
       /\ a # b
       /\ \A t \in {x, y} : <<a, t>> \in DOMAIN world
                            /\ <<b, t>> \in DOMAIN world
       /\ world[<<a, x>>] = [raises |-> FALSE,
                             out |-> <<GoodResult(a, "ip", y)>>]
       /\ world[<<a, y>>] = [raises |-> FALSE, out |-> <<>>]
       /\ world[<<b, x>>] = [raises |-> FALSE, out |-> <<>>]
       /\ world[<<b, y>>] = [raises |-> FALSE,
                             out |-> <<GoodResult(b, "domain", x)>>]

\* C8: one strategy maps domain x to IP y, another maps y back to x, and
\* max_depth >= 1: analyze(x) returns domains = {x}, ips = {y} and the two
\* relationships x->y at depth 0, y->x at depth 1; x is expanded once.
C8_CycleScenario ==
    (status = "done" /\ max_depth >= 1 /\ initial_domain = 1
     /\ IsCycleWorld(1, 2))
    => /\ result.domains = <<1>>
       /\ result.ips = <<2>>
       /\ Len(result.relationships) = 2
       /\ LET r1 == result.relationships[1]
              r2 == result.relationships[2]
          IN  /\ r1.from = 1 /\ r1.to = 2 /\ r1.depth = 0
              /\ r2.from = 2 /\ r2.to = 1 /\ r2.depth = 1
       /\ expansions[1] = 1

\* the cycle scenario has run to its end
C8_Witness ==
    /\ status = "done" /\ max_depth >= 1 /\ initial_domain = 1
    /\ IsCycleWorld(1, 2)

\* ---------------------------------------------------------------- C9
\* C9: when the traversal of an analyze call starts, visited, graph,
\* domains, ips and the log are empty, whatever ran before; and a run
\* returns the same result as the first finished run with the same root.
C9_RunIsolation ==
    /\ (status = "running" /\ Len(stack) = 1 /\ stack[1].pc = "enter"
        /\ stack[1].parent = NoParent)
       => /\ visited = {} /\ graph = EmptyGraph
          /\ all_results = EmptyResults
    /\ (status = "done" /\ initial_domain \in DOMAIN memo)
       => result = memo[initial_domain]

\* a second analyze call on the same engine has returned a non-empty log
C9_Witness ==
    /\ status = "done" /\ runs >= 2
    /\ result.relationships # <<>>

\* --------------------------------------------------------------- C10
\* C10 (as claimed): every value of domains or ips was reached along a
\* chain of at most max_depth relationships from the root.
C10_ValuesWithinMaxDepth ==
    \A h \in hops :
       h[1] \in all_results.domains \cup all_results.ips
          => h[2] <= max_depth

\* C10 (amended): every expanded target lies at most max_depth edges from
\* the root along the chain it was reached by, and every value of domains
\* or ips at most max_depth + 1 edges.
C10_ValuesWithinMaxDepthPlusOne ==
    /\ \A h \in hops :
          h[1] \in all_results.domains \cup all_results.ips
             => h[2] <= max_depth + 1
    /\ \A k \in 1..Len(stack) :
          stack[k].pc # "enter" => k - 1 <= max_depth

\* a finished run that recorded a value max_depth + 1 edges from the root
C10_Witness ==
    /\ status = "done" /\ max_depth >= 0
    /\ \E h \in hops :
         /\ h[1] \in all_results.domains \cup all_results.ips
         /\ h[2] = max_depth + 1

\* ---------------------------------------------------------------- C11
\* a call of _recursive_analyze is at its guards and one of them applies
GuardHit ==
    /\ status = "running" /\ stack # <<>> /\ Top.pc = "enter"
    /\ (Top.depth > max_depth \/ Top.target \in visited)

\* C11: a call that hits the depth guard or the visited guard returns at
\* once: visited, domains, ips, the relationship log and the adjacency
\* graph are as before the call, and no strategy is invoked.
C11_GuardChangesNothing ==
    [][GuardHit =>
         /\ visited' = visited
         /\ all_results' = all_results
         /\ graph' = graph
         /\ invoked' = invoked
         /\ stack' = SubSeq(stack, 1, Len(stack) - 1)]_vars

\* one call was turned away by the visited guard, and one by the depth
\* guard whose target is still unvisited
C11_Witness ==
    \E i, j \in 1..Len(events) :
       /\ events[i].what = "seen"
       /\ events[j].what = "too deep" /\ events[j].target \notin visited

\* ---------------------------------------------------------------- C12
\* The parents the crawler is to examine: every suffix parts[i:], i >= 1,
\* that is strictly longer than the recognised TLD.
CandidateParents(target) ==
    LET parts == Split(RStripDot(Lower(target)))
        tld_index == find_tld_index(parts)
    IN  { Join(SubSeq(parts, i + 1, Len(parts))) : i \in 1..(tld_index - 1) }

\* C12: TLDCrawlerStrategy.discover returns, without raising, a domain
\* discovery for every candidate parent that exists in DNS and is not
\* excluded (for "a.b.c.gouv.fr": "b.c.gouv.fr" and "c.gouv.fr"), and none
\* for the TLD itself.
C12_EveryParentReturned ==
    (probe.strategy = "TLDCrawler" /\ is_valid_domain(probe.target)) =>
       /\ ~probe.ret.raises
       /\ \A d \in CandidateParents(probe.target) :
            (domain_exists(probe.zone, d)
             /\ ~should_exclude(probe.exclude, d))
            => \E r \in probe.ret.results :
                  r.type = "domain" /\ r.value = d
       /\ \A r \in probe.ret.results :
            r.value \in CandidateParents(probe.target)

\* ---------------------------------------------------------------- C13
\* C13: in the returned result total_domains and total_ips are the numbers
\* of distinct values of 'domains' and 'ips', total_relationships is the
\* length of 'relationships', and 'domains' and 'ips' list no value twice.
C13_StatsMatchResult ==
    /\ result.stats.total_domains = Cardinality(Range(result.domains))
    /\ result.stats.total_ips = Cardinality(Range(result.ips))
    /\ result.stats.total_relationships = Len(result.relationships)
    /\ Len(result.domains) = Cardinality(Range(result.domains))
    /\ Len(result.ips) = Cardinality(Range(result.ips))

\* a returned result in which a domain and an IP address were each
\* discovered twice
C13_Witness ==
    /\ status = "done"
    /\ \E i, j, k, l \in 1..Len(result.relationships) :
         /\ i # j /\ k # l
         /\ result.relationships[i].to = result.relationships[j].to
         /\ result.relationships[i].type = "domain"
         /\ result.relationships[k].to = result.relationships[l].to
         /\ result.relationships[k].type = "ip"

\* ---------------------------------------------------------------- C14
\* C14: on a target that is neither a valid domain nor a valid IP address
\* every strategy's discover returns the empty set and does not raise,
\* whatever the resolver answers.
C14_InvalidTargetYieldsNothing ==
    (/\ probe.strategy # "none"
     /\ ~is_valid_domain(probe.target)
     /\ ~is_valid_ip(probe.target))
    => probe.ret = Nothing

\* ---------------------------------------------------------------- C15
\* position of strategy s in the roster
RosterIndex(s) == CHOOSE i \in 1..Len(Roster) : Roster[i] = s

\* number of discover calls made on target t in this run
InvokedOn(t) == Cardinality({n \in 1..Len(invoked) : invoked[n][2] = t})

\* C15: the discover calls on one target are consecutive in the order of
\* all calls (no call on another target lies between them), they follow
\* the roster from its first strategy on, and once the strategy loop of an
\* expanded target is over every strategy was called on it exactly once,
\* also when an earlier one faulted; a target never expanded got no call.
C15_RosterOrderPerTarget ==
    /\ \A n, m \in 1..Len(invoked) :
         (n < m /\ invoked[n][2] = invoked[m][2]) =>
            \A k \in n..m : invoked[k][2] = invoked[n][2]
    /\ \A n \in 1..Len(invoked) :
         IF n > 1 /\ invoked[n - 1][2] = invoked[n][2]
         THEN RosterIndex(invoked[n][1]) = RosterIndex(invoked[n - 1][1]) + 1
         ELSE invoked[n][1] = Roster[1]
    /\ \A k \in 1..Len(stack) :
         stack[k].pc = "recurse" => InvokedOn(stack[k].target) = Len(Roster)
    /\ status = "done" =>
         \A t \in 1..MaxValues :
            InvokedOn(t) = (IF t \in visited THEN Len(Roster) ELSE 0)

\* a finished run that expanded two targets, at one of which the first
\* strategy raised
C15_Witness ==
    /\ status = "done" /\ Cardinality(visited) >= 2
    /\ \E t \in visited :
         /\ <<Roster[1], t>> \in DOMAIN world
         /\ world[<<Roster[1], t>>].raises

\* ---------------------------------------------------------------- C16
\* the expansions of this run, in order, as <<target, depth>>
ExpandOrder ==
    LET e == SelectSeq(events, LAMBDA x : x.what = "expand")
    IN  [i \in 1..Len(e) |-> <<e[i].target, e[i].depth>>]

\* The discovery graph: the values the strategies gave at target t, in
\* roster order and, within a strategy, in the order they were iterated
\* (up to a malformed result, if any).
RECURSIVE ChildrenFrom(_, _)
ChildrenFrom(t, i) ==
    IF i > Len(Roster) THEN <<>>
    ELSE LET key == <<Roster[i], t>>
             q == IF key \in DOMAIN world THEN GoodPrefix(world[key].out)
                  ELSE <<>>
         IN  [n \in 1..Len(q) |-> q[n].items[2]] \o ChildrenFrom(t, i + 1)

\* Depth-first preorder from t at depth d that does not go below depth md
\* and enters no target twice; acc = [seen, order] is the traversal so far.
RECURSIVE Preorder(_, _, _, _)
RECURSIVE PreorderAll(_, _, _, _)
Preorder(t, d, md, acc) ==
    IF d > md \/ t \in acc.seen THEN acc
    ELSE PreorderAll(ChildrenFrom(t, 1), d + 1, md,
                     [seen |-> acc.seen \cup {t},
                      order |-> Append(acc.order, <<t, d>>)])

PreorderAll(cs, d, md, acc) ==
    IF cs = <<>> THEN acc
    ELSE PreorderAll(Tail(cs), d, md, Preorder(Head(cs), d, md, acc))

DepthLimitedPreorder ==
    Preorder(initial_domain, 0, max_depth,
             [seen |-> {}, order |-> <<>>]).order

\* C16 (as claimed): the targets are expanded in depth-first preorder of
\* the discovery graph, children in recorded order, and each target is
\* expanded by the first call the traversal makes for it.
C16_FirstReachedWins ==
    status = "done" =>
       /\ ExpandOrder = DepthLimitedPreorder
       /\ \A j \in 1..Len(events) :
            events[j].what = "expand" =>
               \A i \in 1..(j - 1) : events[i].target # events[j].target

\* C16 (amended): the targets are expanded in the preorder of the
\* depth-first traversal cut at max_depth, children in recorded order; a
\* call beyond max_depth neither expands nor marks its target, so a
\* target is expanded by the first call for it that is within max_depth,
\* and every earlier call for it was beyond max_depth.
C16_DepthLimitedPreorder ==
    status = "done" =>
       /\ ExpandOrder = DepthLimitedPreorder
       /\ \A j \in 1..Len(events) :
            events[j].what = "expand" =>
               /\ events[j].depth <= max_depth
               /\ \A i \in 1..(j - 1) :
                    events[i].target = events[j].target =>
                       /\ events[i].what = "too deep"
                       /\ events[i].depth > max_depth

\* a finished run in which a target was first reached beyond max_depth,
\* on a path through an earlier child, and expanded later as a child of
\* the root, after another child's expansion
C16_Witness ==
    /\ status = "done" /\ Len(ExpandOrder) >= 4
    /\ \E i, j \in 1..Len(events) :
         /\ i < j
         /\ events[i].what = "too deep" /\ events[j].what = "expand"
         /\ events[i].target = events[j].target

\* ---------------------------------------------------------------- C17
\* the expansion of target t in this run, if any
ExpansionsOf(t) ==
    {j \in 1..Len(events) :
        events[j].what = "expand" /\ events[j].target = t}

\* C17: at every discover call the target is in the visited set its
\* context gives access to, its expansion precedes the call, and the
\* depth and parent of the context are those of that expansion.
C17_VisitedBeforeDiscover ==
    \A n \in 1..Len(events) :
       events[n].what = "discover" =>
          /\ events[n].target \in events[n].seen
          /\ \E j \in ExpansionsOf(events[n].target) :
               /\ j < n
               /\ events[n].depth = events[j].depth
               /\ events[n].parent = events[j].parent

\* both strategies were called on the root and on a target discovered at
\* depth 1
C17_Witness ==
    \E n, m \in 1..Len(events) :
       /\ events[n].what = "discover" /\ events[m].what = "discover"
       /\ events[n].strategy = Roster[2] /\ events[m].strategy = Roster[2]
       /\ events[n].depth = 0 /\ events[n].parent = NoParent
       /\ events[m].depth = 1 /\ events[m].parent = events[n].target

\* ---------------------------------------------------------------- C18
\* strategy s, called on target t in this run, returned t itself as a
\* well-formed discovery that the engine got to
SelfDiscovery(s, t) ==
    /\ t \in visited /\ <<s, t>> \in DOMAIN world
    /\ \E n \in 1..Len(GoodPrefix(world[<<s, t>>].out)) :
         world[<<s, t>>].out[n].items[2] = t

\* C18: when a strategy called on T returns T itself, the finished run
\* holds a relationship T->T at the depth of T's expansion and an
\* adjacency entry T under T, T is in domains or ips by its kind, and T
\* was expanded once only.
C18_SelfLoopRecordedNotExpanded ==
    status = "done" =>
       \A t \in 1..MaxValues : \A i \in 1..Len(Roster) :
          SelfDiscovery(Roster[i], t) =>
             /\ \E k \in 1..Len(Rels), j \in ExpansionsOf(t) :
                  /\ Rels[k].from = t /\ Rels[k].to = t
                  /\ Rels[k].source = Roster[i]
                  /\ Rels[k].depth = events[j].depth
             /\ t \in DOMAIN graph
             /\ \E k \in 1..Len(graph[t]) :
                  graph[t][k].value = t /\ graph[t][k].source = Roster[i]
             /\ IF KindOf(t) = "domain" THEN t \in all_results.domains
                ELSE t \in all_results.ips
             /\ expansions[t] = 1

\* a finished run in which a target at depth 1 discovered itself and
\* max_depth left room to expand it again
C18_Witness ==
    /\ status = "done" /\ max_depth >= 2
    /\ \E t \in 1..MaxValues, i \in 1..Len(Roster) :
         /\ SelfDiscovery(Roster[i], t)
         /\ t # initial_domain

\* ---------------------------------------------------------------- C19
\* a call of _recursive_analyze is at its guards and passes both
ExpansionStarts ==
    /\ status = "running" /\ stack # <<>> /\ Top.pc = "enter"
    /\ Top.depth <= max_depth /\ Top.target \notin visited

\* the engine is about to call discover on the target of the top frame
DiscoverCall ==
    /\ status = "running" /\ stack # <<>> /\ Top.pc = "strategies"
    /\ Top.si <= Len(Roster)

\* C19: a discover call leaves visited, domains, ips, the relationship
\* log and the adjacency graph as they are; while a run is in progress
\* the visited set only grows, it grows only when an expansion starts,
\* and then by exactly the target of that expansion.
C19_OnlyEngineWritesState ==
    [][/\ DiscoverCall =>
            /\ visited' = visited
            /\ all_results' = all_results
            /\ graph' = graph
       /\ status = "running" => visited \subseteq visited'
       /\ ExpansionStarts =>
            /\ Top.target \notin visited
            /\ visited' = visited \cup {Top.target}
       /\ (status = "running" /\ visited' # visited) => ExpansionStarts
      ]_vars

\* three targets have been expanded in one run and every strategy was
\* called on each of them
C19_Witness ==
    /\ Cardinality(visited) >= 3
    /\ \A t \in visited : InvokedOn(t) = Len(Roster)

\* ---------------------------------------------------------------- C20
\* C20: while a run is in progress every step leaves the relationship log
\* as it is or appends one entry to it, and the finished run holds, for
\* every expanded target and strategy, one entry per discovery the engine
\* normalized, equal values included.
C20_LogAppendOnly ==
    /\ [][status = "running" =>
             \/ all_results'.relationships = Rels
             \/ /\ Len(all_results'.relationships) = Len(Rels) + 1
                /\ SubSeq(all_results'.relationships, 1, Len(Rels)) = Rels
         ]_vars
    /\ [](status = "done" =>
            \A t \in visited : \A i \in 1..Len(Roster) :
               Len(FromBy(t, Roster[i]))
                  = Len(GoodPrefix(world[<<Roster[i], t>>].out)))

\* a finished run in which two strategies, and one strategy twice,
\* discovered the same value at the same target
C20_Witness ==
    /\ status = "done"
    /\ \E i, j, k \in 1..Len(Rels) :
         /\ i < j /\ j < k
         /\ Rels[i].from = Rels[j].from /\ Rels[j].from = Rels[k].from
         /\ Rels[i].to = Rels[j].to /\ Rels[j].to = Rels[k].to
         /\ Rels[i].source = Rels[j].source /\ Rels[j].source # Rels[k].source
         /\ Cardinality(all_results.domains \cup all_results.ips) = 1

\* ---------------------------------------------------------------- C21
\* the adjacency list stored under t (none: the empty list)
AdjOf(t) == IF t \in DOMAIN graph THEN graph[t] ELSE <<>>

\* (value, type, source) of the relationships from t, in log order
RelsFrom(t) ==
    LET q == SelectSeq(Rels, LAMBDA r : r.from = t)
    IN  [i \in 1..Len(q) |->
           [value |-> q[i].to, type |-> q[i].type, source |-> q[i].source]]

\* a relationship has been appended whose adjacency entry is still to come
HalfRecorded ==
    status = "running" /\ stack # <<>> /\ Top.pc = "addgraph"

RECURSIVE AdjTotal(_)
AdjTotal(K) ==
    IF K = {} THEN 0
    ELSE LET t == CHOOSE x \in K : TRUE
         IN  Len(graph[t]) + AdjTotal(K \ {t})

\* C21: the adjacency list under every target T is the sequence of
\* (value, type, source) of the relationships from T, in log order (less
\* its last entry while a discovery is half recorded); only expanded
\* targets are keys of the graph; the adjacency lists together are as long
\* as the log once a discovery is fully recorded; the relationships from
\* one target are contiguous in the log and carry one depth.
C21_GraphMirrorsLog ==
    /\ \A t \in 1..MaxValues :
         IF HalfRecorded /\ t = Top.target
         THEN AdjOf(t) \o <<GraphEntry(Top.cur)>> = RelsFrom(t)
         ELSE AdjOf(t) = RelsFrom(t)
    /\ DOMAIN graph \subseteq visited
    /\ ~HalfRecorded => AdjTotal(DOMAIN graph) = Len(Rels)
    /\ \A i, j \in 1..Len(Rels) :
         (i < j /\ Rels[i].from = Rels[j].from) =>
            /\ Rels[i].depth = Rels[j].depth
            /\ \A k \in i..j : Rels[k].from = Rels[i].from

\* a finished run with two keys in the graph, the root's list holding
\* discoveries of both strategies, and a relationship of another target
\* after them in the log
C21_Witness ==
    /\ status = "done" /\ Cardinality(DOMAIN graph) >= 2
    /\ \E a, b \in 1..Len(AdjOf(initial_domain)) :
         AdjOf(initial_domain)[a].source # AdjOf(initial_domain)[b].source
    /\ Rels[Len(Rels)].from # initial_domain

\* ---------------------------------------------------------------- C22
\* the SRV answers the resolver gives for entry n of the catalogue
SrvAnswersFor(target, zone, n) ==
    LET srv_query == COMMON_SERVICES[n][1] \o <<".">>
                     \o COMMON_SERVICES[n][2] \o <<".">> \o target
    IN  IF srv_query \in DOMAIN zone.srv THEN zone.srv[srv_query] ELSE <<>>

\* C22: on a valid domain SRVScannerStrategy.discover does not raise, and
\* it returns a domain discovery for the host of every SRV answer, over
\* the catalogue, that has at least four fields and whose host is a
\* valid domain that is not excluded.
C22_SrvHostsReturned ==
    (probe.strategy = "SRVScanner" /\ is_valid_domain(probe.target)) =>
       /\ ~probe.ret.raises
       /\ \A n \in 1..Len(COMMON_SERVICES) :
            LET answers == SrvAnswersFor(probe.target, probe.zone, n)
            IN  \A j \in 1..Len(answers) :
                   (/\ Len(answers[j]) >= 4
                    /\ is_valid_domain(RStripDot(answers[j][4]))
                    /\ ~should_exclude(probe.exclude,
                                       RStripDot(answers[j][4])))
                   => \E r \in probe.ret.results :
                         /\ r.type = "domain"
                         /\ r.value = RStripDot(answers[j][4])

\* ---------------------------------------------------------------- C23
\* An IPv4 address as two 16-bit halves, so that a + k is computed by
\* plain addition with one carry.
HalfSize == 256 * 256

UpperHalf(o) == o[1] * 256 + o[2]

LowerHalf(o) == o[3] * 256 + o[4]

\* the halves of a + k, for |k| < HalfSize
PlusHalves(o, k) ==
    LET low == LowerHalf(o) + k
        carry == IF low >= HalfSize THEN 1 ELSE IF low < 0 THEN -1 ELSE 0
    IN  [upper |-> UpperHalf(o) + carry, lower |-> low - carry * HalfSize]

\* a + k lies in the IPv4 address space
InAddressSpace(o, k) ==
    PlusHalves(o, k).upper >= 0 /\ PlusHalves(o, k).upper < HalfSize

PlusText(o, k) ==
    LET h == PlusHalves(o, k)
    IN  IpText(<<h.upper \div 256, h.upper % 256,
                 h.lower \div 256, h.lower % 256>>)

\* the ip discoveries the claim expects for address a and scan range r
ExpectedNeighbors(a, r) ==
    { PlusText(Octets(a), k) :
        k \in { j \in (0 - r)..r : j # 0 /\ InAddressSpace(Octets(a), j) } }

\* C23: for an IP target a and scan range r, IPNeighborsStrategy.discover
\* does not raise and its ip discoveries are exactly the addresses a + k,
\* k in -r..r, k # 0, that lie in the address space; a is not among them.
C23_NeighborsWithinAddressSpace ==
    (probe.strategy = "IPNeighbors" /\ is_valid_ip(probe.target)) =>
       LET ips == { r.value : r \in { x \in probe.ret.results :
                                        x.type = "ip" } }
       IN  /\ ~probe.ret.raises
           /\ ips = ExpectedNeighbors(probe.target, probe.scan_range)
           /\ probe.target \notin ips

\* a scan of range 2 or more around 0.0.0.1: its first offsets leave the
\* address space and the three addresses 0.0.0.0, 0.0.0.2 and 0.0.0.3, or
\* more, are still returned
C23_Witness ==
    /\ probe.strategy = "IPNeighbors" /\ probe.scan_range >= 2
    /\ probe.target = IP_LOW
    /\ Cardinality({ x \in probe.ret.results : x.type = "ip" }) >= 3

\* ---------------------------------------------------------------- C24
\* the targets reachable from the root by a chain of at most k discovery
\* edges, an edge being a value a strategy gave for the previous target
RECURSIVE ReachableWithin(_)
ReachableWithin(k) ==
    IF k <= 0 THEN {initial_domain}
    ELSE LET inner == ReachableWithin(k - 1)
         IN  inner \cup UNION { Range(ChildrenFrom(t, 1)) : t \in inner }

\* C24: when analyze has finished, every target reachable from the root
\* by a chain of at most max_depth discovery edges has been expanded.
C24_CompleteWithinDepth ==
    (status = "done" /\ max_depth >= 0) =>
       ReachableWithin(max_depth) \subseteq visited
====
